---- MODULE Spec2Model ----
(***************************************************************************)
(* A model of the bitcask crate: the record codec (repr.rs), the two       *)
(* FileSystem implementations (TestFileSystem, ConcreteSystem), the Fs     *)
(* layer (fs/mod.rs), the Cask store (lib.rs) and the worker pool          *)
(* (pool/mod.rs).  Files are byte sequences; a record is its 15 header     *)
(* bytes, little-endian, followed by key and value bytes.                  *)
(***************************************************************************)
EXTENDS Integers, Sequences, FiniteSets, TLC

\* the store: the FileSystem implementation, the Fs layer's cursor and active fd,
\* the keydir and its RwLock (writer, readers), the clock, and per caller thread
\* the place in the call (pc) and its locals (loc)
VARIABLES fs_impl, cursor, active_fd, keydir, kd_w, kd_r, clock, pc, loc
\* history: calls started and their limit, each thread's last completed call,
\* the value last put per key (<<>> when none or deleted), completed puts per key
\* and per thread, the appends in log order, the number of reopens
VARIABLES ops, limit, last, model, nput, tput, applog, reopens
\* the environment: the trouble the operating system may make for an append
\* (an io::Error from the write or the flush, a short write)
VARIABLES faulty
\* history: the length of the append log at each run of the compaction loop
VARIABLES compacted

\* the locking discipline: the threads' positions in the lock events of their
\* calls, the Fs and keydir RwLocks, the RwLock's priority policy
VARIABLES lthr, lk, policy

lockVars == <<lthr, lk, policy>>

storeVars == <<fs_impl, cursor, active_fd, keydir, kd_w, kd_r, clock, pc, loc,
               ops, limit, last, model, nput, tput, applog, reopens, faulty,
               compacted>>

\* the worker pool: max_threads, the Shared fields behind the mutex (queue,
\* num_threads, thread_idx, worker_threads, waiting_threads, shutdown,
\* shutdown_tx), num_handles, each worker thread's place in Inner::run and the
\* job it runs; history: how often each job ran, the next job to submit
VARIABLES max_threads, queue, num_threads, thread_idx, worker_threads,
          waiting_threads, shutdown, shutdown_tx, num_handles, wpc, wjob,
          ran, next_job
\* the Pool handles (those of the owner and the clone each worker thread
\* holds) with their place in Drop and Pool::shutdown, the join handles that
\* shutdown took out of worker_threads, whether the mutex is poisoned
VARIABLES hpc, taken, poisoned

poolVars == <<max_threads, queue, num_threads, thread_idx, worker_threads,
              waiting_threads, shutdown, shutdown_tx, num_handles, wpc, wjob,
              ran, next_job, hpc, taken, poisoned>>

\* the compaction state machine: the Compactor (operations, state and the
\* instant held by Wait); history: the last call made on it and what it returned
VARIABLES compactor, cin, cout

compVars == <<compactor, cin, cout>>

\* a pure function of the program put to work: its inputs and what it returned
VARIABLES calc

vars == <<storeVars, lockVars, poolVars, compVars, calc>>

\* ------------------------------------------------------------------ bounds
MaxOps == 4
MaxConcOps == 3
MaxJobs == 4
MaxPoolThreads == 2
MaxHandles == 2
MaxQueued == 3
MaxTime == 1
Threshold == 34

Keys == {<<1>>, <<2>>}
Values == {<<7>>, <<8, 9>>}
FsKinds == {"test", "concrete"}
Threads == {1, 2}

\* ------------------------------------------------------------ record codec
HeaderLEN == 15
IS_DELETED == 1
NOT_DELETED == 0
TestFileInitLen == 64

Zeros(n) == [i \in 1..n |-> 0]

\* little-endian bytes of n in w bytes (bytemuck::bytes_of on a LE target)
RECURSIVE ToLE(_, _)
ToLE(n, w) == IF w = 0 THEN <<>> ELSE <<n % 256>> \o ToLE(n \div 256, w - 1)

RECURSIVE FromLE(_)
FromLE(b) == IF Len(b) = 0 THEN 0 ELSE b[1] + 256 * FromLE(Tail(b))

\* Entry::new_encoded: the header of a live record
new_encoded(key, val, ts) ==
    [header |-> [tombstone |-> NOT_DELETED, timestamp |-> ts,
                 key_size |-> Len(key) % 65536, value_size |-> Len(val)],
     key |-> key, value |-> val]

\* Entry::new_empty: a tombstone, timestamp 0, no value
new_empty(key) ==
    [header |-> [tombstone |-> IS_DELETED, timestamp |-> 0,
                 key_size |-> Len(key) % 65536, value_size |-> 0],
     key |-> key, value |-> <<>>]

\* a usize length as two limbs, n = hi * 2^16 + lo, so that lengths beyond the
\* 32 bits of a model integer keep their value
Len64(hi, lo) == [hi |-> hi, lo |-> lo]
ToInt(n) == n.hi * 65536 + n.lo

\* `as u16`, `as u32`: the low 16, the low 32 bits
AsU16(n) == n.lo
AsU32(n) == Len64(n.hi % 65536, n.lo)

U16MAX == 65535
U32MAX == Len64(U16MAX, U16MAX)

\* usize addition of two lengths (no carry out of 64 bits at these sizes)
Add64(a, b) ==
    LET lo == a.lo + b.lo IN Len64(a.hi + b.hi + lo \div 65536, lo % 65536)

\* u32::saturating_add: the sum, or u32::MAX when it does not fit 32 bits
SaturatingAddU32(a, b) ==
    LET sum == Add64(a, b) IN IF sum.hi > U16MAX THEN U32MAX ELSE sum

\* Header::data_size on the fields of any header: value_size (u32) and
\* key_size (u16, widened) are added as u32, then widened to usize
DataSize(key_size, value_size) == SaturatingAddU32(value_size, Len64(0, key_size))

\* Header::entry_size: Header::LEN as usize + data_size()
EntrySize(key_size, value_size) == Add64(Len64(0, HeaderLEN), DataSize(key_size, value_size))

\* Entry::len: (Header::LEN + key_size as u64 + value_size as u64) as usize
EntryLen(key_size, value_size) ==
    Add64(Add64(Len64(0, HeaderLEN), Len64(0, key_size)), value_size)

\* the length of Entry::serialize(): header bytes, key and value concatenated
SerializedLen(key_len, val_len) == Add64(Add64(Len64(0, HeaderLEN), key_len), val_len)

\* debug_assert! is compiled in a debug build only
Builds == {"debug", "release"}

\* Entry::new_encoded on the lengths of key and value: the asserts of a debug
\* build, then the size fields of the header; there is no error for a size
new_encoded_sizes(build, key_len, val_len) ==
    IF build = "debug" /\ ~(AsU16(key_len) < U16MAX /\ AsU32(val_len) # U32MAX)
    THEN [tag |-> "Panic", key_size |-> 0, value_size |-> Len64(0, 0)]
    ELSE [tag |-> "Ok", key_size |-> AsU16(key_len), value_size |-> AsU32(val_len)]

\* Entry::new_empty on the length of the key
new_empty_sizes(build, key_len) ==
    IF build = "debug" /\ ~(key_len.hi = 0 /\ key_len.lo < U16MAX)
    THEN [tag |-> "Panic", key_size |-> 0, value_size |-> Len64(0, 0)]
    ELSE [tag |-> "Ok", key_size |-> AsU16(key_len), value_size |-> Len64(0, 0)]

HeaderSerialize(h) ==
    <<h.tombstone>> \o ToLE(h.timestamp, 8) \o ToLE(h.key_size, 2) \o ToLE(h.value_size, 4)

EntrySerialize(e) == HeaderSerialize(e.header) \o e.key \o e.value

\* the fields bytemuck::try_from_bytes gives for 15 header bytes
HdrTombstone(b) == b[1]
HdrTimestamp(b) == FromLE(SubSeq(b, 2, 9))
HdrKeySize(b) == FromLE(SubSeq(b, 10, 11))
HdrValueSize(b) == FromLE(SubSeq(b, 12, 15))

\* Header::data_size, Header::entry_size (sizes in the model stay far below 2^32)
data_size(ks, vs) == vs + ks
entry_size(ks, vs) == HeaderLEN + data_size(ks, vs)

\* ------------------------------------------------------------- TestFileSystem
\* A TestFile is kept as buf, the bytes up to the highest one written, and pos;
\* the Vec behind it is buf padded with zeros to TestFileInitLen bytes.
TestFileNew == [buf |-> <<>>, pos |-> 0]

Max(a, b) == IF a > b THEN a ELSE b

TestFileCap(f) == Max(TestFileInitLen, Len(f.buf))

\* positional write into a byte sequence, zero fill of any gap
BufWrite(buf, off, data) ==
    [i \in 1..Max(Len(buf), off + Len(data)) |->
        IF i > off /\ i <= off + Len(data) THEN data[i - off]
        ELSE IF i <= Len(buf) THEN buf[i] ELSE 0]

\* TestFile::write_at: pos grows by the number of bytes written
TestFileWriteAt(f, off, data) ==
    [buf |-> BufWrite(f.buf, off, data), pos |-> f.pos + Len(data)]

\* TestFile::read_at
TestFileReadAt(f, off, len) ==
    [i \in 1..len |-> IF off + i <= Len(f.buf) THEN f.buf[off + i] ELSE 0]

TestInit == [kind |-> "test", buffers |-> (0 :> TestFileNew), active |-> 0]

TestWriteAt(fs, fd, data, off) ==
    IF fd \in DOMAIN fs.buffers
    THEN [ok |-> TRUE, n |-> Len(data),
          fs |-> [fs EXCEPT !.buffers[fd] = TestFileWriteAt(@, off, data)]]
    ELSE [ok |-> FALSE, n |-> 0, fs |-> fs]

\* TestFile::len is pos; a slice past the Vec's end cannot be served either
TestReadExactAt(fs, fd, len, off) ==
    IF fd \notin DOMAIN fs.buffers THEN [ok |-> FALSE, data |-> <<>>]
    ELSE LET f == fs.buffers[fd] IN
         IF f.pos < off \/ off + len > f.pos \/ off + len > TestFileCap(f)
         THEN [ok |-> FALSE, data |-> <<>>]
         ELSE [ok |-> TRUE, data |-> TestFileReadAt(f, off, len)]

TestNewActive(fs) ==
    LET new_active == fs.active + 1 IN
    [fd |-> new_active,
     fs |-> [fs EXCEPT !.active = new_active,
                       !.buffers = (new_active :> TestFileNew) @@ fs.buffers]]

\* ------------------------------------------------------------- ConcreteSystem
\* dir: file name -> inode, name 0 is active.db, name n > 0 is immutable-n.db;
\* map: Fd -> inode of the open File; inodes: the file contents.
ConcreteNew(dir, inodes) ==
    [kind |-> "concrete", fd_num |-> 1, active |-> 1, map |-> <<>>,
     dir |-> dir, inodes |-> inodes]

create_or_swap_active(fs) ==
    LET has_active == 0 \in DOMAIN fs.dir
        imm == fs.active
        s1 == IF has_active
              THEN [fs EXCEPT
                      !.dir = [n \in (DOMAIN fs.dir \ {0}) \cup {imm} |->
                                  IF n = imm THEN fs.dir[0] ELSE fs.dir[n]],
                      !.map = (fs.fd_num :> fs.dir[0]) @@ fs.map,
                      !.fd_num = fs.fd_num + 1]
              ELSE fs
        ino == Len(s1.inodes) + 1
        fd == s1.fd_num
    IN [fd |-> fd,
        fs |-> [s1 EXCEPT !.inodes = Append(s1.inodes, <<>>),
                          !.dir = (0 :> ino) @@ s1.dir,
                          !.map = (fd :> ino) @@ s1.map,
                          !.fd_num = fd + 1,
                          !.active = fd]]

ConcreteInit == create_or_swap_active(ConcreteNew(<<>>, <<>>)).fs

ConcreteWriteAt(fs, fd, data, off) ==
    IF fd \in DOMAIN fs.map
    THEN [ok |-> TRUE, n |-> Len(data),
          fs |-> [fs EXCEPT !.inodes[fs.map[fd]] = BufWrite(@, off, data)]]
    ELSE [ok |-> FALSE, n |-> 0, fs |-> fs]

ConcreteReadExactAt(fs, fd, len, off) ==
    IF fd \notin DOMAIN fs.map THEN [ok |-> FALSE, data |-> <<>>]
    ELSE LET b == fs.inodes[fs.map[fd]] IN
         IF off + len > Len(b) THEN [ok |-> FALSE, data |-> <<>>]
         ELSE [ok |-> TRUE, data |-> SubSeq(b, off + 1, off + len)]

\* ---------------------------------------------------------- FileSystem trait
write_at(fs, fd, data, off) ==
    IF fs.kind = "test" THEN TestWriteAt(fs, fd, data, off)
    ELSE ConcreteWriteAt(fs, fd, data, off)

read_exact_at(fs, fd, len, off) ==
    IF fs.kind = "test" THEN TestReadExactAt(fs, fd, len, off)
    ELSE ConcreteReadExactAt(fs, fd, len, off)

new_active(fs) ==
    IF fs.kind = "test" THEN TestNewActive(fs) ELSE create_or_swap_active(fs)

num_files(fs) ==
    IF fs.kind = "test" THEN Cardinality(DOMAIN fs.buffers)
    ELSE Cardinality(DOMAIN fs.dir)

\* ------------------------------------------------------------------ Fs layer
\* the calls of one append that may come back with an io::Error
IoErrors == {"write", "flush"}

\* what the file I/O of one append meets: no fault, an io::Error from the
\* write or from the flush, or a first write_at that takes only n bytes
Fault(kind, n) == [kind |-> kind, n |-> n]
NoFault == Fault("none", 0)

\* Fs::write_entry, one critical section under the Fs write lock: the loop
\* `while size < buf.len() { size += write_at(active, &buf, cursor)? }` hands
\* the whole buffer and the same offset to every call; accept is the number
\* of bytes the next call takes
RECURSIVE WriteLoop(_, _, _, _, _, _)
WriteLoop(fs, afd, buf, cur, size, accept) ==
    IF size >= Len(buf) THEN [ok |-> TRUE, fs |-> fs, size |-> size]
    ELSE LET w == write_at(fs, afd, SubSeq(buf, 1, accept), cur) IN
         IF ~w.ok THEN [ok |-> FALSE, fs |-> w.fs, size |-> size]
         ELSE WriteLoop(w.fs, afd, buf, cur, size + w.n, Len(buf))

\* an append that leaves the cursor where it was
AdvanceCursorStuck(cur, size) == cur

\* inner.cursor += size: the cursor after an append of size bytes
AdvanceCursor(cur, size) == cur + size

NoEntry == [fd |-> 0, value_size |-> 0, offset |-> 0, timestamp |-> 0]

\* fault: "none", or the io::Error the operating system answers the write
\* ("write": nothing written) or the flush after it ("flush") with
write_entry(fs, cur, afd, e, fault) ==
    LET buf == EntrySerialize(e)
        w == WriteLoop(fs, afd, buf, cur, 0,
                       IF fault.kind = "short" THEN fault.n ELSE Len(buf))
    IN
    IF fault.kind = "write" THEN [ok |-> FALSE, fs |-> fs, cursor |-> cur, ce |-> NoEntry]
    ELSE IF ~w.ok \/ fault.kind = "flush"
    THEN [ok |-> FALSE, fs |-> w.fs, cursor |-> cur, ce |-> NoEntry]
    ELSE [ok |-> TRUE, fs |-> w.fs, cursor |-> AdvanceCursor(cur, w.size),
          ce |-> [fd |-> w.fs.active, value_size |-> e.header.value_size,
                  offset |-> cur, timestamp |-> e.header.timestamp]]

\* Fs::get_chunk: always reads the file named by the Fs layer's active_fd
get_chunk(fs, afd, off, len) == read_exact_at(fs, afd, len, off)

\* a rotation that opens two new files instead of one
SwapActiveTwice(fs) ==
    LET n == new_active(new_active(fs).fs) IN [fs |-> n.fs, active_fd |-> n.fd, cursor |-> 0]

\* a rotation after which the Fs layer still appends under the old handle
SwapActiveStale(fs) ==
    LET n == new_active(fs) IN [fs |-> n.fs, active_fd |-> fs.active, cursor |-> 0]

\* Fs::swap_active, one critical section under the Fs write lock
swap_active(fs) ==
    LET n == new_active(fs) IN [fs |-> n.fs, active_fd |-> n.fd, cursor |-> 0]

\* ------------------------------------------------------------------- Cask
Ok(v) == [tag |-> "Ok", val |-> v]
NotFound == [tag |-> "NotFound", val |-> <<>>]
IoErr == [tag |-> "Io", val |-> <<>>]
NoRes == [tag |-> "None", val |-> <<>>]

\* a rotation test that lets a file of exactly the threshold size stay active
ReachedThresholdStrict(size) == size > Threshold

\* the rotation test of Cask::insert
ReachedThreshold(size) == size >= Threshold

\* the file Cask::get reads for a keydir entry
ReadFd(afd, ce) == afd

\* CacheEntry::data_offset
data_offset(ce) == ce.offset + HeaderLEN

\* Cask::get run to completion on a given state of the store
get(fs, afd, kd, key) ==
    IF key \notin DOMAIN kd THEN NotFound
    ELSE LET ce == kd[key]
             h == get_chunk(fs, ReadFd(afd, ce), ce.offset, HeaderLEN)
         IN IF ~h.ok THEN IoErr
            ELSE LET ks == HdrKeySize(h.data)
                     vs == HdrValueSize(h.data)
                     d == get_chunk(fs, ReadFd(afd, ce), data_offset(ce), data_size(ks, vs))
                 IN IF ~d.ok THEN IoErr
                    ELSE Ok(SubSeq(d.data, ks + 1, Len(d.data)))

\* a scan step that stays where it is
ScanAdvanceNone(current, ks, vs) == current

\* self.current = Offset(self.current.0 + header.entry_size())
ScanAdvance(current, ks, vs) == current + entry_size(ks, vs)

\* HeaderIter::next: None at the end, Some(Err) when a read fails, else
\* Some(Ok((key, cache_entry))) with current moved past the record
HeaderIterNext(fs, afd, file_size, current) ==
    LET none == [some |-> FALSE, ok |-> TRUE, key |-> <<>>, ce |-> NoEntry,
                 current |-> current]
        err == [none EXCEPT !.some = TRUE, !.ok = FALSE]
    IN
    IF ~(current < file_size) THEN none
    ELSE LET h == get_chunk(fs, afd, current, HeaderLEN) IN
         IF ~h.ok THEN err
         ELSE LET ks == HdrKeySize(h.data)
                  vs == HdrValueSize(h.data)
                  k == get_chunk(fs, afd, current + HeaderLEN, ks)
              IN IF ~k.ok THEN err
                 ELSE [some |-> TRUE, ok |-> TRUE, key |-> k.data,
                       ce |-> [fd |-> afd, value_size |-> vs, offset |-> current,
                               timestamp |-> HdrTimestamp(h.data)],
                       current |-> ScanAdvance(current, ks, vs)]

\* `for entry in iterator { let (key, cache_entry) = entry?; map.insert(..) }`
RECURSIVE HeaderIter(_, _, _, _, _)
HeaderIter(fs, afd, file_size, current, map) ==
    LET n == HeaderIterNext(fs, afd, file_size, current) IN
    IF ~n.some THEN [ok |-> TRUE, map |-> map]
    ELSE IF ~n.ok THEN [ok |-> FALSE, map |-> map]
    ELSE HeaderIter(fs, afd, file_size, n.current, (n.key :> n.ce) @@ map)

\* an open that rebuilds the index from the file that init has just renamed
NewWithRenamedScan(fs) ==
    LET old == 1
        size == IF old \in DOMAIN fs.map /\ old # fs.active
                THEN Len(fs.inodes[fs.map[old]]) ELSE 0
        it == IF size > 0 THEN HeaderIter(fs, old, size, 0, <<>>)
              ELSE [ok |-> TRUE, map |-> <<>>]
    IN [ok |-> it.ok, fs |-> fs, cursor |-> 0, active_fd |-> fs.active, keydir |-> it.map]

\* Fs::new followed by the body of Cask::new_with_fs_impl
new_with_fs_impl(fs) ==
    LET cur0 == 0
        afd == fs.active
        size == cur0
        it == IF size > 0 THEN HeaderIter(fs, afd, cur0, 0, <<>>)
              ELSE [ok |-> TRUE, map |-> <<>>]
    IN [ok |-> it.ok, fs |-> fs, cursor |-> cur0, active_fd |-> afd, keydir |-> it.map]

\* ------------------------------------------------------------ thread state
NoLoc == [op |-> "none", key |-> <<>>, val |-> <<>>, ts |-> 0, ce |-> NoEntry,
          size |-> 0, rotated |-> FALSE, ks |-> 0, vs |-> 0]

NoLast == [op |-> "none", key |-> <<>>, val |-> <<>>, res |-> NoRes, size |-> 0,
           rotated |-> FALSE, own |-> <<>>]

\* the record of a completed call; own = <<v>> when the call is a get of the key
\* the same thread put v to in its previous call
Done(t, op, key, val, res, size, rotated) ==
    [op |-> op, key |-> key, val |-> val, res |-> res, size |-> size,
     rotated |-> rotated,
     own |-> IF op = "get" /\ last[t].op = "put" /\ last[t].key = key
                /\ last[t].res.tag = "Ok"
             THEN <<last[t].val>> ELSE <<>>]

Idle == \A t \in Threads : pc[t] = "idle"

InitStoreIO(kinds, lim, t0, io) ==
    /\ fs_impl \in {IF k = "test" THEN TestInit ELSE ConcreteInit : k \in kinds}
    /\ cursor = 0
    /\ active_fd = fs_impl.active
    /\ keydir = <<>>
    /\ kd_w = 0
    /\ kd_r = {}
    /\ clock = t0
    /\ pc = [t \in Threads |-> "idle"]
    /\ loc = [t \in Threads |-> NoLoc]
    /\ ops = 0
    /\ limit = lim
    /\ last = [t \in Threads |-> NoLast]
    /\ model = [k \in Keys |-> <<>>]
    /\ nput = [k \in Keys |-> 0]
    /\ tput = [t \in Threads |-> 0]
    /\ applog = <<>>
    /\ reopens = 0
    /\ faulty = io
    /\ compacted = <<>>

\* a store whose file I/O never fails
InitStore(kinds, lim, t0) == InitStoreIO(kinds, lim, t0, {})

\* the outcomes of the file I/O of one append of len bytes: a ConcreteSystem
\* write or flush may fail, and File::write_at may take fewer bytes than it
\* is given; the in-memory TestFileSystem always takes all
Faults(len) ==
    IF fs_impl.kind = "concrete"
    THEN {NoFault} \cup {Fault(k, 0) : k \in faulty \cap IoErrors}
            \cup {Fault(k, n) : k \in faulty \cap {"short"}, n \in {1, len - 1}}
    ELSE {NoFault}

\* ------------------------------------------------------------ Cask::insert
\* an insert that records the locator although the append failed
FailedInsertUpserts(kd, key, ce) == (key :> ce) @@ kd

\* the keydir after write_entry(entry)? returned early with the error
FailedInsert(kd, key, ce) == kd

\* insert entered: Entry::new_encoded reads the clock
StartInsert(t, k, v) ==
    /\ pc[t] = "idle" /\ ops < limit
    /\ \E ts \in clock..MaxTime :
          /\ clock' = ts
          /\ loc' = [loc EXCEPT ![t] = [NoLoc EXCEPT !.op = "put", !.key = k,
                                                      !.val = v, !.ts = ts]]
    /\ pc' = [pc EXCEPT ![t] = "write"]
    /\ ops' = ops + 1
    /\ UNCHANGED <<fs_impl, cursor, active_fd, keydir, kd_w, kd_r, limit, last,
                   model, nput, applog, reopens, tput>>
    /\ UNCHANGED <<lockVars, poolVars, compVars, calc, faulty, compacted>>

\* self.inner.fs.write_entry(entry)?
InsertWrite(t) ==
    /\ pc[t] = "write"
    /\ \E fault \in Faults(entry_size(Len(loc[t].key), Len(loc[t].val))) :
       LET e == new_encoded(loc[t].key, loc[t].val, loc[t].ts)
           w == write_entry(fs_impl, cursor, active_fd, e, fault)
       IN /\ fs_impl' = w.fs
          /\ cursor' = w.cursor
          /\ keydir' = IF w.ok THEN keydir ELSE FailedInsert(keydir, loc[t].key, w.ce)
          /\ IF w.ok
             THEN /\ loc' = [loc EXCEPT ![t].ce = w.ce]
                  /\ applog' = Append(applog, [fd |-> w.ce.fd, off |-> w.ce.offset,
                                               len |-> Len(EntrySerialize(e)),
                                               tomb |-> FALSE, key |-> loc[t].key])
                  /\ pc' = [pc EXCEPT ![t] = "size"]
                  /\ last' = last
             ELSE /\ loc' = [loc EXCEPT ![t] = NoLoc]
                  /\ applog' = applog
                  /\ pc' = [pc EXCEPT ![t] = "idle"]
                  /\ last' = [last EXCEPT ![t] =
                                Done(t, "put", loc[t].key, loc[t].val, IoErr, 0, FALSE)]
    /\ UNCHANGED <<active_fd, kd_w, kd_r, clock, ops, limit, model, nput, reopens, tput>>
    /\ UNCHANGED <<lockVars, poolVars, compVars, calc, faulty, compacted>>

\* if self.inner.fs.active_size()? as usize >= self.config.active_threshold
InsertSize(t) ==
    /\ pc[t] = "size"
    /\ loc' = [loc EXCEPT ![t].size = cursor]
    /\ pc' = [pc EXCEPT ![t] = IF ReachedThreshold(cursor) THEN "swap" ELSE "upsert"]
    /\ UNCHANGED <<fs_impl, cursor, active_fd, keydir, kd_w, kd_r, clock, ops, limit,
                   last, model, nput, applog, reopens, tput>>
    /\ UNCHANGED <<lockVars, poolVars, compVars, calc, faulty, compacted>>

\* self.inner.fs.swap_active()?
InsertSwap(t) ==
    /\ pc[t] = "swap"
    /\ LET s == swap_active(fs_impl) IN
          /\ fs_impl' = s.fs
          /\ active_fd' = s.active_fd
          /\ cursor' = s.cursor
    /\ loc' = [loc EXCEPT ![t].rotated = TRUE]
    /\ pc' = [pc EXCEPT ![t] = "upsert"]
    /\ UNCHANGED <<keydir, kd_w, kd_r, clock, ops, limit, last, model, nput, applog, reopens, tput>>
    /\ UNCHANGED <<lockVars, poolVars, compVars, calc, faulty, compacted>>

\* keydir.write().entry(key).and_modify(..).or_insert_with(..); Ok(())
InsertUpsert(t) ==
    /\ pc[t] = "upsert"
    /\ kd_w = 0 /\ kd_r = {}
    /\ keydir' = (loc[t].key :> loc[t].ce) @@ keydir
    /\ pc' = [pc EXCEPT ![t] = "idle"]
    /\ last' = [last EXCEPT ![t] = Done(t, "put", loc[t].key, loc[t].val, Ok(<<>>),
                                        loc[t].size, loc[t].rotated)]
    /\ model' = [model EXCEPT ![loc[t].key] = <<loc[t].val>>]
    /\ nput' = [nput EXCEPT ![loc[t].key] = IF @ < 2 THEN @ + 1 ELSE @]
    /\ tput' = [tput EXCEPT ![t] = @ + 1]
    /\ loc' = [loc EXCEPT ![t] = NoLoc]
    /\ UNCHANGED <<fs_impl, cursor, active_fd, kd_w, kd_r, clock, ops, limit, applog, reopens>>
    /\ UNCHANGED <<lockVars, poolVars, compVars, calc, faulty, compacted>>

\* --------------------------------------------------------------- Cask::get
\* keydir.read() and the lookup; the read guard lives until get returns
StartGet(t, k) ==
    /\ pc[t] = "idle" /\ ops < limit
    /\ kd_w = 0
    /\ ops' = ops + 1
    /\ IF k \notin DOMAIN keydir
       THEN /\ last' = [last EXCEPT ![t] = Done(t, "get", k, <<>>, NotFound, 0, FALSE)]
            /\ UNCHANGED <<pc, loc, kd_r>>
       ELSE /\ kd_r' = kd_r \cup {t}
            /\ loc' = [loc EXCEPT ![t] = [NoLoc EXCEPT !.op = "get", !.key = k,
                                                       !.ce = keydir[k]]]
            /\ pc' = [pc EXCEPT ![t] = "hdr"]
            /\ last' = last
    /\ UNCHANGED <<fs_impl, cursor, active_fd, keydir, kd_w, clock, limit, model,
                   nput, applog, reopens, tput>>
    /\ UNCHANGED <<lockVars, poolVars, compVars, calc, faulty, compacted>>

\* the first get_chunk: the 15 header bytes at cache_entry.offset
GetHeader(t) ==
    /\ pc[t] = "hdr"
    /\ LET h == get_chunk(fs_impl, ReadFd(active_fd, loc[t].ce), loc[t].ce.offset, HeaderLEN)
       IN IF h.ok
          THEN /\ loc' = [loc EXCEPT ![t].ks = HdrKeySize(h.data),
                                     ![t].vs = HdrValueSize(h.data)]
               /\ pc' = [pc EXCEPT ![t] = "data"]
               /\ UNCHANGED <<last, kd_r>>
          ELSE /\ loc' = [loc EXCEPT ![t] = NoLoc]
               /\ pc' = [pc EXCEPT ![t] = "idle"]
               /\ kd_r' = kd_r \ {t}
               /\ last' = [last EXCEPT ![t] =
                             Done(t, "get", loc[t].key, <<>>, IoErr, 0, FALSE)]
    /\ UNCHANGED <<fs_impl, cursor, active_fd, keydir, kd_w, clock, ops, limit, model,
                   nput, applog, reopens, tput>>
    /\ UNCHANGED <<lockVars, poolVars, compVars, calc, faulty, compacted>>

\* the second get_chunk: key and value bytes at data_offset(); value = buf[key_size..]
GetData(t) ==
    /\ pc[t] = "data"
    /\ LET d == get_chunk(fs_impl, ReadFd(active_fd, loc[t].ce), data_offset(loc[t].ce),
                          data_size(loc[t].ks, loc[t].vs))
           res == IF d.ok THEN Ok(SubSeq(d.data, loc[t].ks + 1, Len(d.data))) ELSE IoErr
       IN last' = [last EXCEPT ![t] = Done(t, "get", loc[t].key, <<>>, res, 0, FALSE)]
    /\ loc' = [loc EXCEPT ![t] = NoLoc]
    /\ pc' = [pc EXCEPT ![t] = "idle"]
    /\ kd_r' = kd_r \ {t}
    /\ UNCHANGED <<fs_impl, cursor, active_fd, keydir, kd_w, clock, ops, limit, model,
                   nput, applog, reopens, tput>>
    /\ UNCHANGED <<lockVars, poolVars, compVars, calc, faulty, compacted>>

\* ------------------------------------------------------------ Cask::remove
\* a remove that leaves the entry in the map
RemoveKeyKeeps(kd, k) == kd

\* HashMap::remove
RemoveKey(kd, k) == [x \in DOMAIN kd \ {k} |-> kd[x]]

\* a remove that takes every key for present
RemoveHitAlways(kd, k) == TRUE

\* if let Some(_) = keydir.remove(key): the key had an entry
RemoveHit(kd, k) == k \in DOMAIN kd

\* keydir.write().remove(key); the write guard lives through the if-let body
StartRemove(t, k) ==
    /\ pc[t] = "idle" /\ ops < limit
    /\ kd_w = 0 /\ kd_r = {}
    /\ ops' = ops + 1
    /\ IF RemoveHit(keydir, k)
       THEN /\ keydir' = RemoveKey(keydir, k)
            /\ kd_w' = t
            /\ loc' = [loc EXCEPT ![t] = [NoLoc EXCEPT !.op = "remove", !.key = k]]
            /\ pc' = [pc EXCEPT ![t] = "tomb"]
            /\ last' = last
       ELSE /\ last' = [last EXCEPT ![t] = Done(t, "remove", k, <<>>, Ok(<<>>), 0, FALSE)]
            /\ UNCHANGED <<keydir, kd_w, loc, pc>>
    /\ UNCHANGED <<fs_impl, cursor, active_fd, kd_r, clock, limit, model, nput, applog, reopens, tput>>
    /\ UNCHANGED <<lockVars, poolVars, compVars, calc, faulty, compacted>>

\* a remove that answers Ok whatever became of the tombstone
TombResultSwallowed(ok) == Ok(<<>>)

\* write_entry(tombstone)?; Ok(()): the error of a failed append is returned
TombResult(ok) == IF ok THEN Ok(<<>>) ELSE IoErr

\* self.inner.fs.write_entry(tombstone)? inside the if-let body
RemoveWrite(t) ==
    /\ pc[t] = "tomb"
    /\ \E fault \in Faults(entry_size(Len(loc[t].key), 0)) :
       LET e == new_empty(loc[t].key)
           w == write_entry(fs_impl, cursor, active_fd, e, fault)
       IN /\ fs_impl' = w.fs
          /\ cursor' = w.cursor
          /\ applog' = IF w.ok
                       THEN Append(applog, [fd |-> w.ce.fd, off |-> w.ce.offset,
                                            len |-> Len(EntrySerialize(e)),
                                            tomb |-> TRUE, key |-> loc[t].key])
                       ELSE applog
          /\ last' = [last EXCEPT ![t] =
                        Done(t, "remove", loc[t].key, <<>>, TombResult(w.ok), 0, FALSE)]
    /\ kd_w' = 0
    /\ model' = [model EXCEPT ![loc[t].key] = <<>>]
    /\ loc' = [loc EXCEPT ![t] = NoLoc]
    /\ pc' = [pc EXCEPT ![t] = "idle"]
    /\ UNCHANGED <<active_fd, keydir, kd_r, clock, ops, limit, nput, reopens, tput>>
    /\ UNCHANGED <<lockVars, poolVars, compVars, calc, faulty, compacted>>

\* ------------------------------------------------- drop the store, open again
\* ConcreteSystem::init on the same directory, then Cask::new_with_fs_impl; the
\* size of the call record tells whether the call before was an open as well
Reopen ==
    /\ Idle /\ ops < limit
    /\ fs_impl.kind = "concrete"
    /\ LET c == new_with_fs_impl(
                  create_or_swap_active(ConcreteNew(fs_impl.dir, fs_impl.inodes)).fs)
       IN /\ c.ok
          /\ fs_impl' = c.fs
          /\ cursor' = c.cursor
          /\ active_fd' = c.active_fd
          /\ keydir' = c.keydir
    /\ ops' = ops + 1
    /\ reopens' = reopens + 1
    /\ last' = [t \in Threads |->
                  Done(t, "open", <<>>, <<>>, Ok(<<>>),
                       IF last[t].op = "open" THEN 2 ELSE 1, FALSE)]
    /\ UNCHANGED <<kd_w, kd_r, clock, pc, loc, limit, model, nput, applog, tput>>
    /\ UNCHANGED <<lockVars, poolVars, compVars, calc, faulty, compacted>>

\* ------------------------------------------------------------ compaction
\* Cask::init submits this many compaction jobs to the pool
CompactionJobs == 2

\* compactor::Operation; only CheckKeydir carries a key
Op(name, key) == [op |-> name, key |-> key]
NoOp == Op("None", <<>>)

\* Compactor::new: CheckFile queued, state Compact
CompactorNew ==
    [operations |-> <<Op("CheckFile", <<>>)>>, state |-> "Compact", since |-> 0]

\* Compactor::poll_transmit: operations.pop_front()
poll_transmit(c) ==
    IF c.operations = <<>> THEN [some |-> FALSE, op |-> NoOp, c |-> c]
    ELSE [some |-> TRUE, op |-> Head(c.operations),
          c |-> [c EXCEPT !.operations = Tail(@)]]

\* a compaction that forgets the index
CompactedKeydirEmpty(kd) == <<>>

\* the keydir after Cask::compaction_loop, which takes the first operation
\* from a new Compactor and returns
CompactedKeydir(kd) == kd

\* Cask::compaction_loop, run as a pool job
CompactionLoop ==
    /\ Len(compacted) < CompactionJobs
    /\ poll_transmit(CompactorNew).some
    /\ keydir' = CompactedKeydir(keydir)
    /\ compacted' = Append(compacted, Len(applog))
    /\ UNCHANGED <<fs_impl, cursor, active_fd, kd_w, kd_r, clock, pc, loc, ops, limit,
                   last, model, nput, tput, applog, reopens, faulty>>
    /\ UNCHANGED <<lockVars, poolVars, compVars, calc>>

\* ------------------------------------------------- the Compactor, sans io
\* Duration::from_secs(60 * 60)
Dormancy == 3600
\* the instants handed to the compactor, in seconds
Instants == {0, 3599, 3600, 7200}

\* compactor::Input
In(kind, tomb, key, now) == [kind |-> kind, tomb |-> tomb, key |-> key, now |-> now]
Inputs ==
    {In("Entry", b, k, 0) : b \in BOOLEAN, k \in Keys}
       \cup {In("End", FALSE, <<>>, t) : t \in Instants}
       \cup {In("MatchKeydir", FALSE, <<>>, 0), In("NotMatchkeydir", FALSE, <<>>, 0)}

\* the hint queued before the copy
OnMatchHintFirst(q) == q \o <<Op("AddHint", <<>>), Op("AddImmutable", <<>>)>>

\* handle_input, Input::MatchKeydir: two push_back
OnMatch(q) == q \o <<Op("AddImmutable", <<>>), Op("AddHint", <<>>)>>

\* handle_input, Input::Entry: the body of the arm is commented out
OnEntry(q, inp) == q

\* a handle_input that acts on its input in the Wait state as well
HandleInputAnyState(c, inp) ==
    CASE inp.kind = "Entry" -> [c EXCEPT !.operations = OnEntry(@, inp)]
      [] inp.kind = "MatchKeydir" -> [c EXCEPT !.operations = OnMatch(@)]
      [] inp.kind = "NotMatchkeydir" ->
            [c EXCEPT !.operations = Append(@, Op("Ignore", <<>>))]
      [] inp.kind = "End" -> [c EXCEPT !.state = "Wait", !.since = inp.now]

\* Compactor::handle_input
handle_input(c, inp) ==
    IF c.state = "Wait" THEN c
    ELSE CASE inp.kind = "Entry" -> [c EXCEPT !.operations = OnEntry(@, inp)]
           [] inp.kind = "MatchKeydir" -> [c EXCEPT !.operations = OnMatch(@)]
           [] inp.kind = "NotMatchkeydir" ->
                 [c EXCEPT !.operations = Append(@, Op("Ignore", <<>>))]
           [] inp.kind = "End" -> [c EXCEPT !.state = "Wait", !.since = inp.now]

\* Instant::duration_since(earlier): self - earlier, zero when earlier is later
duration_since(self, earlier) == IF self >= earlier THEN self - earlier ELSE 0

\* Compactor::handle_timeout
handle_timeout(c, now) ==
    IF c.state = "Compact" THEN c
    ELSE IF duration_since(c.since, now) < Dormancy THEN c
    ELSE [operations |-> Append(c.operations, Op("CheckFile", <<>>)),
          state |-> "Compact", since |-> 0]

\* a deadline without the dormancy interval
PollTimeoutAtOnce(c) ==
    IF c.state = "Compact" THEN [some |-> FALSE, at |-> 0]
    ELSE [some |-> TRUE, at |-> c.since]

\* Compactor::poll_timeout
poll_timeout(c) ==
    IF c.state = "Compact" THEN [some |-> FALSE, at |-> 0]
    ELSE [some |-> TRUE, at |-> c.since + Dormancy]

NoIn == In("None", FALSE, <<>>, 0)
Ret(some, op, at) == [some |-> some, op |-> op, at |-> at]
NoRet == Ret(FALSE, NoOp, 0)
Call(name, inp) == [call |-> name, inp |-> inp]

\* Compactor::new()
InitCompactor ==
    /\ compactor = CompactorNew
    /\ cin = Call("new", NoIn)
    /\ cout = NoRet

\* a call of handle_input
HandleInput ==
    /\ Len(compactor.operations) < MaxQueued
    /\ \E inp \in Inputs :
          /\ compactor' = handle_input(compactor, inp)
          /\ cin' = Call("handle_input", inp)
    /\ cout' = NoRet
    /\ UNCHANGED <<storeVars, lockVars, poolVars, calc>>

\* a call of handle_timeout
HandleTimeout ==
    /\ Len(compactor.operations) < MaxQueued
    /\ \E now \in Instants :
          /\ compactor' = handle_timeout(compactor, now)
          /\ cin' = Call("handle_timeout", In("None", FALSE, <<>>, now))
    /\ cout' = NoRet
    /\ UNCHANGED <<storeVars, lockVars, poolVars, calc>>

\* a call of poll_transmit
PollTransmit ==
    /\ LET r == poll_transmit(compactor) IN
          /\ compactor' = r.c
          /\ cout' = Ret(r.some, r.op, 0)
    /\ cin' = Call("poll_transmit", NoIn)
    /\ UNCHANGED <<storeVars, lockVars, poolVars, calc>>

\* a call of poll_timeout
PollTimeout ==
    /\ LET r == poll_timeout(compactor) IN cout' = Ret(r.some, NoOp, r.at)
    /\ cin' = Call("poll_timeout", NoIn)
    /\ UNCHANGED compactor
    /\ UNCHANGED <<storeVars, lockVars, poolVars, calc>>

\* ------------------------------------------------------ pure functions
NoCalc == [fn |-> "none"]
InitCalc == calc = NoCalc

\* lengths around the limits of the size fields
KeyLens ==
    {Len64(0, 0), Len64(0, 1), Len64(0, U16MAX - 1), Len64(0, U16MAX),
     Len64(1, 0), Len64(1, 1)}
ValLens ==
    {Len64(0, 0), Len64(0, 1), Len64(U16MAX, U16MAX - 1), U32MAX,
     Len64(U16MAX + 1, 0), Len64(U16MAX + 1, 1)}

\* a key and a value of these lengths are about to be encoded
CodecInputs ==
    {[fn |-> "new_encoded", build |-> b, key_len |-> k, val_len |-> v, done |-> FALSE,
      out |-> [tag |-> "None", key_size |-> 0, value_size |-> Len64(0, 0)]] :
        b \in Builds, k \in KeyLens, v \in ValLens}
      \cup
    {[fn |-> "new_empty", build |-> b, key_len |-> k, val_len |-> Len64(0, 0),
      done |-> FALSE,
      out |-> [tag |-> "None", key_size |-> 0, value_size |-> Len64(0, 0)]] :
        b \in Builds, k \in KeyLens}

\* Entry::new_encoded(&key, &value) as Cask::insert calls it
EncodeLive ==
    /\ calc.fn = "new_encoded" /\ ~calc.done
    /\ calc' = [calc EXCEPT !.done = TRUE,
                            !.out = new_encoded_sizes(calc.build, calc.key_len, calc.val_len)]
    /\ UNCHANGED <<storeVars, lockVars, poolVars, compVars>>

\* Entry::new_empty(key) as Cask::remove calls it
EncodeTombstone ==
    /\ calc.fn = "new_empty" /\ ~calc.done
    /\ calc' = [calc EXCEPT !.done = TRUE,
                            !.out = new_empty_sizes(calc.build, calc.key_len)]
    /\ UNCHANGED <<storeVars, lockVars, poolVars, compVars>>

\* size fields a valid record can carry, up to the largest
KeySizes == {0, 1, 2, U16MAX - 2, U16MAX - 1}
ValueSizes ==
    {Len64(0, 0), Len64(0, 1), Len64(1, 0), Len64(U16MAX, 0),
     Len64(U16MAX, U16MAX - 2), Len64(U16MAX, U16MAX - 1)}

\* a record with these size fields, whose sizes are about to be asked for
SizeInputs ==
    {[fn |-> "sizes", key_size |-> k, value_size |-> v, hdone |-> FALSE, edone |-> FALSE,
      data_size |-> Len64(0, 0), entry_size |-> Len64(0, 0),
      len |-> Len64(0, 0), serialized |-> Len64(0, 0)] :
        k \in KeySizes, v \in ValueSizes}

\* header.data_size() and header.entry_size()
SizeOfHeader ==
    /\ calc.fn = "sizes" /\ ~calc.hdone
    /\ calc' = [calc EXCEPT !.hdone = TRUE,
                            !.data_size = DataSize(calc.key_size, calc.value_size),
                            !.entry_size = EntrySize(calc.key_size, calc.value_size)]
    /\ UNCHANGED <<storeVars, lockVars, poolVars, compVars>>

\* entry.len() and entry.serialize().len()
SizeOfEntry ==
    /\ calc.fn = "sizes" /\ ~calc.edone
    /\ calc' = [calc EXCEPT !.edone = TRUE,
                            !.len = EntryLen(calc.key_size, calc.value_size),
                            !.serialized = SerializedLen(Len64(0, calc.key_size),
                                                         calc.value_size)]
    /\ UNCHANGED <<storeVars, lockVars, poolVars, compVars>>

\* --------------------------------------------------------- the recovery scan
\* the loop of new_with_fs_impl over HeaderIter, one call of next per step,
\* run over the active file of a store that has finished its calls; the file
\* size the iterator sees is fs.active_size(), the cursor
Scan(status, current, map) ==
    [fn |-> "scan", status |-> status, current |-> current, map |-> map]

\* HeaderIter { active_fd, fs, current: Offset(0) } and an empty map
ScanStart ==
    /\ Idle /\ ops = limit /\ calc = NoCalc
    /\ calc' = Scan("run", 0, <<>>)
    /\ UNCHANGED <<storeVars, lockVars, poolVars, compVars>>

\* one turn of the for loop: None ends it, `entry?` returns the error, an
\* item is inserted into the map
ScanNext ==
    /\ calc.fn = "scan" /\ calc.status = "run"
    /\ LET n == HeaderIterNext(fs_impl, active_fd, cursor, calc.current) IN
          calc' = IF ~n.some THEN Scan("done", calc.current, calc.map)
                  ELSE IF ~n.ok THEN Scan("err", calc.current, calc.map)
                  ELSE Scan("run", n.current, (n.key :> n.ce) @@ calc.map)
    /\ UNCHANGED <<storeVars, lockVars, poolVars, compVars>>

\* ------------------------------------------------------ locking discipline
\* The RwLock events of each call, in program order: <<"acq" | "rel", lock, mode>>
\* with lock "fs" (Fs::inner) or "kd" (Inner::keydir), mode "r" or "w".
FsSection(mode) == << <<"acq", "fs", mode>>, <<"rel", "fs", mode>> >>

\* an insert that does the keydir upsert inside write_entry's critical section
InsertLocksNested(swap) ==
    << <<"acq", "fs", "w">>, <<"acq", "kd", "w">>, <<"rel", "kd", "w">>,
       <<"rel", "fs", "w">> >>
    \o FsSection("r") \o (IF swap THEN FsSection("w") ELSE <<>>)

\* Cask::insert: write_entry, active_size, swap_active if the threshold is
\* reached, then keydir.write() for the upsert
InsertLocks(swap) ==
    FsSection("w") \o FsSection("r") \o (IF swap THEN FsSection("w") ELSE <<>>)
    \o << <<"acq", "kd", "w">>, <<"rel", "kd", "w">> >>

\* Cask::get: keydir.read() held to the end; one get_chunk for the header and,
\* if that read succeeds, one for the data
GetLocks(found, hdr_ok) ==
    << <<"acq", "kd", "r">> >>
    \o (IF found THEN FsSection("r") \o (IF hdr_ok THEN FsSection("r") ELSE <<>>)
        ELSE <<>>)
    \o << <<"rel", "kd", "r">> >>

\* Cask::remove: keydir.write() held through the if-let body's write_entry
RemoveLocks(present) ==
    << <<"acq", "kd", "w">> >>
    \o (IF present THEN FsSection("w") ELSE <<>>)
    \o << <<"rel", "kd", "w">> >>

LockScripts ==
    {InsertLocks(b) : b \in BOOLEAN}
    \cup {GetLocks(f, h) : f \in BOOLEAN, h \in BOOLEAN}
    \cup {RemoveLocks(b) : b \in BOOLEAN}

LockBusy(t) == lthr[t].script # <<>>
NextEvent(t) == lthr[t].script[lthr[t].i]
Holds(t, l) == lk[l].w = t \/ t \in lk[l].r

\* a writer at its lock() call on l
WriterWaits(l) ==
    \E u \in Threads : LockBusy(u) /\ NextEvent(u) = <<"acq", l, "w">>

\* std::sync::RwLock: a writer needs the lock free; a reader needs no writer
\* and, under a writer-preferring policy, no writer queued behind readers
CanAcquire(t, l, mode) ==
    IF mode = "w" THEN lk[l].w = 0 /\ lk[l].r = {}
    ELSE lk[l].w = 0 /\ (policy = "readers" \/ lk[l].r = {} \/ ~WriterWaits(l))

CanStep(t) ==
    /\ LockBusy(t)
    /\ NextEvent(t)[1] = "acq" => CanAcquire(t, NextEvent(t)[2], NextEvent(t)[3])

InitLock(policies) ==
    /\ lthr = [t \in Threads |-> [script |-> <<>>, i |-> 0]]
    /\ lk = [l \in {"fs", "kd"} |-> [w |-> 0, r |-> {}]]
    /\ policy \in policies

\* a thread enters insert, get or remove
LockStart(t) ==
    /\ ~LockBusy(t)
    /\ \E sc \in LockScripts : lthr' = [lthr EXCEPT ![t] = [script |-> sc, i |-> 1]]
    /\ UNCHANGED <<lk, policy>>
    /\ UNCHANGED <<storeVars, poolVars, compVars, calc>>

Advance(t) ==
    IF lthr[t].i = Len(lthr[t].script)
    THEN [lthr EXCEPT ![t] = [script |-> <<>>, i |-> 0]]
    ELSE [lthr EXCEPT ![t].i = @ + 1]

\* RwLock::read / RwLock::write returns the guard
LockAcquire(t) ==
    /\ CanStep(t) /\ NextEvent(t)[1] = "acq"
    /\ LET l == NextEvent(t)[2] IN
          lk' = IF NextEvent(t)[3] = "w" THEN [lk EXCEPT ![l].w = t]
                ELSE [lk EXCEPT ![l].r = @ \cup {t}]
    /\ lthr' = Advance(t)
    /\ UNCHANGED policy
    /\ UNCHANGED <<storeVars, poolVars, compVars, calc>>

\* the guard is dropped
LockRelease(t) ==
    /\ LockBusy(t) /\ NextEvent(t)[1] = "rel"
    /\ LET l == NextEvent(t)[2] IN
          lk' = IF NextEvent(t)[3] = "w" THEN [lk EXCEPT ![l].w = 0]
                ELSE [lk EXCEPT ![l].r = @ \ {t}]
    /\ lthr' = Advance(t)
    /\ UNCHANGED policy
    /\ UNCHANGED <<storeVars, poolVars, compVars, calc>>

\* ------------------------------------------------------------------- Pool
Workers == 0..(MaxPoolThreads - 1)
Jobs == 1..MaxJobs
\* the handles of the owner, and the clone that spawn_thread moves into worker w
Handles == 1..MaxHandles
WorkerHandle(w) == MaxHandles + 1 + w
HandleIds == 1..(MaxHandles + MaxPoolThreads)

\* Pool::new(n)
InitPool(sizes) ==
    /\ max_threads \in sizes
    /\ queue = <<>>
    /\ num_threads = 0
    /\ thread_idx = 0
    /\ worker_threads = {}
    /\ waiting_threads = 0
    /\ shutdown = FALSE
    /\ shutdown_tx = TRUE
    /\ num_handles = 1
    /\ wpc = [w \in Workers |-> "none"]
    /\ wjob = [w \in Workers |-> 0]
    /\ ran = [j \in Jobs |-> 0]
    /\ next_job = 1
    /\ hpc = [i \in HandleIds |-> IF i = 1 THEN "held" ELSE "none"]
    /\ taken = {}
    /\ poisoned = FALSE

\* the mutex is free unless a worker holds it for good (see ShutdownBranch)
MutexFree == \A w \in Workers : wpc[w] # "stuck"

\* Pool::execute, one critical section under the mutex; spawn_thread clones
\* the handle for the new worker
Execute ==
    /\ next_job <= MaxJobs
    /\ \E h \in Handles : hpc[h] = "held"
    /\ MutexFree /\ ~poisoned
    /\ queue' = Append(queue, next_job)
    /\ next_job' = next_job + 1
    /\ IF num_threads = 0 \/ waiting_threads = 0
       THEN IF num_threads # max_threads /\ shutdown_tx
            THEN /\ num_threads' = num_threads + 1
                 /\ thread_idx' = thread_idx + 1
                 /\ worker_threads' = worker_threads \cup {thread_idx}
                 /\ wpc' = [wpc EXCEPT ![thread_idx] = "start"]
                 /\ num_handles' = num_handles + 1
                 /\ hpc' = [hpc EXCEPT ![WorkerHandle(thread_idx)] = "held"]
                 /\ UNCHANGED waiting_threads
            ELSE UNCHANGED <<num_threads, thread_idx, worker_threads, wpc,
                             num_handles, hpc, waiting_threads>>
       ELSE /\ waiting_threads' = waiting_threads + 1
            /\ UNCHANGED <<num_threads, thread_idx, worker_threads, wpc,
                           num_handles, hpc>>
    /\ UNCHANGED <<max_threads, shutdown, shutdown_tx, wjob, ran, taken, poisoned>>
    /\ UNCHANGED <<storeVars, lockVars, compVars, calc>>

\* what locking a std Mutex again on the thread that holds it can do: block
\* for good, or panic (the guard is dropped in the unwinding, the mutex is
\* poisoned)
RelockOutcomes == {"stuck", "panicked"}

\* Inner::run, the shutdown branch: the drain loop locks the mutex the worker
\* already holds, so with a job left in the queue the worker never gets past
\* it; with the queue empty the worker leaves the loop (num_threads -= 1)
ShutdownBranch(w) ==
    IF queue # <<>>
    THEN /\ queue' = Tail(queue)
         /\ \E o \in RelockOutcomes :
               /\ wpc' = [wpc EXCEPT ![w] = o]
               /\ poisoned' = (poisoned \/ o = "panicked")
         /\ UNCHANGED <<wjob, num_threads>>
    ELSE /\ wpc' = [wpc EXCEPT ![w] = "exit"]
         /\ num_threads' = num_threads - 1
         /\ UNCHANGED <<queue, wjob, poisoned>>

\* lock().unwrap() or condvar.wait(..).unwrap() on the poisoned mutex: the
\* worker thread panics out of Inner::run
WorkerPanics(w) ==
    /\ wpc' = [wpc EXCEPT ![w] = "panicked"]
    /\ UNCHANGED <<queue, wjob, num_threads, poisoned>>

\* Inner::run with the mutex held at the top of the loop: pop a job and run it
\* with the mutex dropped; with the queue empty wait on the condvar, or, when
\* shutting down, take the shutdown branch
RunLoop(w) ==
    IF queue # <<>>
    THEN /\ queue' = Tail(queue)
         /\ wjob' = [wjob EXCEPT ![w] = Head(queue)]
         /\ wpc' = [wpc EXCEPT ![w] = "run"]
         /\ UNCHANGED <<num_threads, poisoned>>
    ELSE IF ~shutdown
    THEN /\ wpc' = [wpc EXCEPT ![w] = "wait"]
         /\ UNCHANGED <<queue, wjob, num_threads, poisoned>>
    ELSE ShutdownBranch(w)

\* the worker thread starts, or comes back from a job, and takes the mutex
WorkerLoop(w) ==
    /\ wpc[w] \in {"start", "relock"}
    /\ MutexFree
    /\ IF poisoned THEN WorkerPanics(w) ELSE RunLoop(w)
    /\ UNCHANGED <<max_threads, thread_idx, worker_threads, waiting_threads, shutdown,
                   shutdown_tx, num_handles, ran, next_job, hpc, taken>>
    /\ UNCHANGED <<storeVars, lockVars, compVars, calc>>

\* job() returns
WorkerRun(w) ==
    /\ wpc[w] = "run"
    /\ ran' = [ran EXCEPT ![wjob[w]] = @ + 1]
    /\ wjob' = [wjob EXCEPT ![w] = 0]
    /\ wpc' = [wpc EXCEPT ![w] = "relock"]
    /\ UNCHANGED <<max_threads, queue, num_threads, thread_idx, worker_threads,
                   waiting_threads, shutdown, shutdown_tx, num_handles, next_job,
                   hpc, taken, poisoned>>
    /\ UNCHANGED <<storeVars, lockVars, compVars, calc>>

\* condvar.wait returns with the mutex (a notification or a spurious wakeup):
\* with waiting_threads != 0 the worker takes one and leaves the idle loop;
\* otherwise it sleeps again unless the pool shuts down
WorkerWake(w) ==
    /\ wpc[w] = "wait"
    /\ MutexFree
    /\ IF poisoned
       THEN WorkerPanics(w) /\ UNCHANGED waiting_threads
       ELSE IF waiting_threads # 0
       THEN /\ waiting_threads' = waiting_threads - 1
            /\ IF shutdown THEN ShutdownBranch(w) ELSE RunLoop(w)
       ELSE /\ UNCHANGED waiting_threads
            /\ IF shutdown
               THEN ShutdownBranch(w)
               ELSE UNCHANGED <<queue, wjob, wpc, num_threads, poisoned>>
    /\ UNCHANGED <<max_threads, thread_idx, worker_threads, shutdown, shutdown_tx,
                   num_handles, ran, next_job, hpc, taken>>
    /\ UNCHANGED <<storeVars, lockVars, compVars, calc>>

\* the closure of spawn_thread after Inner::run: drop(shutdown_tx); a panic in
\* run drops the captured sender in the unwinding
WorkerExit(w) ==
    /\ wpc[w] \in {"exit", "panicked"}
    /\ wpc' = [wpc EXCEPT ![w] = "done"]
    /\ UNCHANGED <<max_threads, queue, num_threads, thread_idx, worker_threads,
                   waiting_threads, shutdown, shutdown_tx, num_handles, wjob, ran,
                   next_job, hpc, taken, poisoned>>
    /\ UNCHANGED <<storeVars, lockVars, compVars, calc>>

\* Pool::clone by an owner of a handle
CloneHandle(h) ==
    /\ h \in Handles /\ hpc[h] = "none"
    /\ \E g \in Handles : hpc[g] = "held"
    /\ num_handles' = num_handles + 1
    /\ hpc' = [hpc EXCEPT ![h] = "held"]
    /\ UNCHANGED <<max_threads, queue, num_threads, thread_idx, worker_threads,
                   waiting_threads, shutdown, shutdown_tx, wpc, wjob, ran, next_job,
                   taken, poisoned>>
    /\ UNCHANGED <<storeVars, lockVars, compVars, calc>>

\* a handle goes out of scope: a worker's clone at the end of its closure, an
\* owner's at any time
CanDrop(i) ==
    /\ hpc[i] = "held"
    /\ \A w \in Workers : i = WorkerHandle(w) => wpc[w] = "done"

\* Drop for Pool, first statement: num_handles.fetch_sub(1)
DropHandle(i) ==
    /\ CanDrop(i)
    /\ num_handles' = num_handles - 1
    /\ hpc' = [hpc EXCEPT ![i] = "load"]
    /\ UNCHANGED <<max_threads, queue, num_threads, thread_idx, worker_threads,
                   waiting_threads, shutdown, shutdown_tx, wpc, wjob, ran, next_job,
                   taken, poisoned>>
    /\ UNCHANGED <<storeVars, lockVars, compVars, calc>>

\* Pool::shutdown, the check of num_handles: any count but 1 returns
ShutdownLoad(i) ==
    /\ hpc[i] = "load"
    /\ hpc' = [hpc EXCEPT ![i] = IF num_handles # 1 THEN "gone" ELSE "lock"]
    /\ UNCHANGED <<max_threads, queue, num_threads, thread_idx, worker_threads,
                   waiting_threads, shutdown, shutdown_tx, num_handles, wpc, wjob,
                   ran, next_job, taken, poisoned>>
    /\ UNCHANGED <<storeVars, lockVars, compVars, calc>>

\* Pool::shutdown, the critical section: return when shutdown_tx is gone;
\* else set the flag, drop the pool's sender, notify_all, take the join
\* handles; lock().unwrap() on the poisoned mutex panics out of the call
ShutdownLock(i) ==
    /\ hpc[i] = "lock"
    /\ MutexFree
    /\ IF poisoned \/ ~shutdown_tx
       THEN /\ hpc' = [hpc EXCEPT ![i] = "gone"]
            /\ UNCHANGED <<shutdown, shutdown_tx, worker_threads, taken>>
       ELSE /\ shutdown' = TRUE
            /\ shutdown_tx' = FALSE
            /\ taken' = worker_threads
            /\ worker_threads' = {}
            /\ hpc' = [hpc EXCEPT ![i] = "recv"]
    /\ UNCHANGED <<max_threads, queue, num_threads, thread_idx, waiting_threads,
                   num_handles, wpc, wjob, ran, next_job, poisoned>>
    /\ UNCHANGED <<storeVars, lockVars, compVars, calc>>

\* a clone of the sender is alive: the pool's own, or that of a worker thread
\* which has not dropped it yet
SendersAlive ==
    shutdown_tx \/ \E w \in Workers : wpc[w] \notin {"none", "done"}

\* Pool::shutdown, shutdown_rx.recv.recv(): nothing is ever sent, so it
\* returns (with Err) once every sender is dropped
ShutdownRecv(i) ==
    /\ hpc[i] = "recv"
    /\ ~SendersAlive
    /\ hpc' = [hpc EXCEPT ![i] = "join"]
    /\ UNCHANGED <<max_threads, queue, num_threads, thread_idx, worker_threads,
                   waiting_threads, shutdown, shutdown_tx, num_handles, wpc, wjob,
                   ran, next_job, taken, poisoned>>
    /\ UNCHANGED <<storeVars, lockVars, compVars, calc>>

\* Pool::shutdown, worker.join() for every taken handle: the worker threads
\* have ended, their clones of the pool handle dropped
ShutdownJoin(i) ==
    /\ hpc[i] = "join"
    /\ \A w \in taken : hpc[WorkerHandle(w)] = "gone"
    /\ hpc' = [hpc EXCEPT ![i] = "gone"]
    /\ UNCHANGED <<max_threads, queue, num_threads, thread_idx, worker_threads,
                   waiting_threads, shutdown, shutdown_tx, num_handles, wpc, wjob,
                   ran, next_job, taken, poisoned>>
    /\ UNCHANGED <<storeVars, lockVars, compVars, calc>>

\* ------------------------------------------------------------ specifications
\* the calls of one thread, its put values drawn from V
Step(t, V) ==
    \/ \E k \in Keys, v \in V : StartInsert(t, k, v)
    \/ InsertWrite(t)
    \/ InsertSize(t)
    \/ InsertSwap(t)
    \/ InsertUpsert(t)
    \/ \E k \in Keys : StartGet(t, k)
    \/ GetHeader(t)
    \/ GetData(t)
    \/ \E k \in Keys : StartRemove(t, k)
    \/ RemoveWrite(t)

\* one caller thread; the store may be dropped and opened again
Init == InitStore(FsKinds, MaxOps, 0) /\ InitLock({"readers"}) /\ InitPool({1}) /\ InitCompactor /\ InitCalc
Next == Step(1, Values) \/ Reopen
Spec == Init /\ [][Next]_vars

\* two caller threads share one store (the runner's main, the threaded test);
\* thread t puts ThreadValue(t), all calls fall within one second of the clock
ThreadValue(t) == IF t = 1 THEN <<7>> ELSE <<8, 9>>
InitConc == InitStore({"test"}, MaxConcOps, MaxTime) /\ InitLock({"readers"}) /\ InitPool({1}) /\ InitCompactor /\ InitCalc
NextConc == \E t \in Threads : Step(t, {ThreadValue(t)})
SpecConc == InitConc /\ [][NextConc]_vars

\* the lock events of concurrent calls, under either RwLock policy
InitLocks == InitStore({"test"}, 0, 0) /\ InitLock({"readers", "writers"}) /\ InitPool({1}) /\ InitCompactor /\ InitCalc
NextLocks == \E t \in Threads : LockStart(t) \/ LockAcquire(t) \/ LockRelease(t)
SpecLocks == InitLocks /\ [][NextLocks]_vars

\* one caller thread that only puts, among its values one whose record is as
\* long as the threshold
BigValue == [i \in 1..(Threshold - HeaderLEN - 1) |-> 3]
RotValues == Values \cup {BigValue}
InitRot == InitStore({"test"}, MaxOps, MaxTime) /\ InitLock({"readers"}) /\ InitPool({1}) /\ InitCompactor /\ InitCalc
NextRot ==
    \/ \E v \in RotValues : StartInsert(1, <<1>>, v)
    \/ InsertWrite(1)
    \/ InsertSize(1)
    \/ InsertSwap(1)
    \/ InsertUpsert(1)
SpecRot == InitRot /\ [][NextRot]_vars

\* one caller thread on a ConcreteSystem whose writes and flushes may fail
InitFault ==
    InitStoreIO({"concrete"}, MaxOps, MaxTime, IoErrors) /\ InitLock({"readers"}) /\ InitPool({1}) /\ InitCompactor /\ InitCalc
NextFault == Step(1, Values)
SpecFault == InitFault /\ [][NextFault]_vars

\* one caller thread on a ConcreteSystem whose write_at may take fewer bytes
\* than it is given
InitShort ==
    /\ InitStoreIO({"concrete"}, MaxConcOps, MaxTime, {"short"})
    /\ InitLock({"readers"}) /\ InitPool({1}) /\ InitCompactor /\ InitCalc
SpecShort == InitShort /\ [][NextFault]_vars

\* two caller threads on a ConcreteSystem whose writes and flushes may fail
InitConcFault ==
    /\ InitStoreIO({"concrete"}, MaxConcOps, MaxTime, IoErrors)
    /\ InitLock({"readers"}) /\ InitPool({1}) /\ InitCompactor /\ InitCalc
SpecConcFault == InitConcFault /\ [][NextConc]_vars

\* one caller thread and the compaction jobs of Cask::init
InitCompact == InitStore({"test"}, MaxConcOps, MaxTime) /\ InitLock({"readers"}) /\ InitPool({1}) /\ InitCompactor /\ InitCalc
NextCompact == Step(1, Values) \/ CompactionLoop
SpecCompact == InitCompact /\ [][NextCompact]_vars

\* the pool: jobs are submitted while the workers run; a worker that can take
\* a step is scheduled, a job returns, a wakeup that finds work is taken
InitPoolOnly ==
    InitStore({"test"}, 0, 0) /\ InitLock({"readers"}) /\ InitPool(1..MaxPoolThreads) /\ InitCompactor /\ InitCalc
NextPool == Execute \/ \E w \in Workers : WorkerLoop(w) \/ WorkerRun(w) \/ WorkerWake(w)
SpecPool == InitPoolOnly /\ [][NextPool]_vars
SpecPoolFair ==
    /\ SpecPool
    /\ \A w \in Workers :
          WF_vars(WorkerLoop(w)) /\ WF_vars(WorkerRun(w)) /\ WF_vars(WorkerWake(w))

\* one caller thread on a ConcreteSystem with short writes; once its calls are
\* made the recovery scan runs over the active file
NextScan == Step(1, Values) \/ ScanStart \/ ScanNext
SpecScan == InitShort /\ [][NextScan]_vars
SpecScanFair == SpecScan /\ WF_vars(ScanNext)

\* the record constructors on lengths around the limits of the size fields
InitCodec ==
    /\ InitStore({"test"}, 0, 0) /\ InitLock({"readers"}) /\ InitPool({1})
    /\ InitCompactor
    /\ calc \in CodecInputs
NextCodec == EncodeLive \/ EncodeTombstone
SpecCodec == InitCodec /\ [][NextCodec]_vars

\* the size functions of a record on size fields up to the largest valid ones
InitSizes ==
    /\ InitStore({"test"}, 0, 0) /\ InitLock({"readers"}) /\ InitPool({1})
    /\ InitCompactor
    /\ calc \in SizeInputs
NextSizes == SizeOfHeader \/ SizeOfEntry
SpecSizes == InitSizes /\ [][NextSizes]_vars

\* the compactor driven by any sequence of calls
InitCompactorOnly ==
    InitStore({"test"}, 0, 0) /\ InitLock({"readers"}) /\ InitPool({1}) /\ InitCompactor /\ InitCalc
NextCompactor == HandleInput \/ HandleTimeout \/ PollTransmit \/ PollTimeout
SpecCompactor == InitCompactorOnly /\ [][NextCompactor]_vars

\* the pool with its handles: owners clone and drop handles and submit jobs;
\* worker threads and calls of shutdown that can take a step are scheduled
InitShut ==
    InitStore({"test"}, 0, 0) /\ InitLock({"readers"}) /\ InitPool(1..MaxPoolThreads) /\ InitCompactor /\ InitCalc
NextShut ==
    \/ Execute
    \/ \E w \in Workers : WorkerLoop(w) \/ WorkerRun(w) \/ WorkerWake(w) \/ WorkerExit(w)
    \/ \E h \in Handles : CloneHandle(h)
    \/ \E i \in HandleIds :
          DropHandle(i) \/ ShutdownLoad(i) \/ ShutdownLock(i) \/ ShutdownRecv(i)
             \/ ShutdownJoin(i)
SpecShut == InitShut /\ [][NextShut]_vars
SpecShutFair ==
    /\ SpecShut
    /\ \A w \in Workers :
          /\ WF_vars(WorkerLoop(w)) /\ WF_vars(WorkerRun(w))
          /\ WF_vars(WorkerWake(w)) /\ WF_vars(WorkerExit(w))
          /\ WF_vars(DropHandle(WorkerHandle(w)))
    /\ \A i \in HandleIds :
          /\ WF_vars(ShutdownLoad(i)) /\ WF_vars(ShutdownLock(i))
          /\ WF_vars(ShutdownRecv(i)) /\ WF_vars(ShutdownJoin(i))

\* ------------------------------------------------------------------ claims
\* Cask::get on the current state of the store
Get(k) == get(fs_impl, active_fd, keydir, k)

PutDone(t) == pc[t] = "idle" /\ last[t].op = "put" /\ last[t].res.tag = "Ok"

\* C1: right after a successful put(k, v), get(k) returns exactly v, also when
\* that put rotated the active file.
C1_PutThenGet ==
    \A t \in Threads : PutDone(t) /\ Idle => Get(last[t].key) = Ok(last[t].val)

\* C2: once k was put at least twice and neither put nor deleted afterwards,
\* get(k) returns the value of the last put, whatever other puts and rotations
\* happened in between.
C2_LastWriterWins ==
    \A k \in Keys :
        Idle /\ reopens = 0 /\ nput[k] >= 2 /\ model[k] # <<>> => Get(k) = Ok(model[k][1])

\* C3: get(k) is NotFound whenever k is absent from the index, and a key whose
\* last completed call was a delete (or that was never put) stays NotFound,
\* however many times it was put before.
C3_DeletedNotFound ==
    \A k \in Keys :
        /\ k \notin DOMAIN keydir => Get(k) = NotFound
        /\ Idle /\ model[k] = <<>> => Get(k) = NotFound

C3_Witness ==
    \E k \in Keys :
        /\ Idle /\ last[1].op = "remove" /\ last[1].key = k /\ last[1].res.tag = "Ok"
        /\ nput[k] >= 2 /\ model[k] = <<>> /\ Len(applog) >= 3

\* C4: after a successful put(k, v), dropping the store and opening the
\* directory again, get(k) on the reopened store returns v.
C4_Durable ==
    \A k \in Keys :
        Idle /\ last[1].op = "open" /\ model[k] # <<>> => Get(k) = Ok(model[k][1])

\* C7: appends are atomic with respect to each other: within one file the
\* records of the append log lie at strictly increasing offsets, their byte
\* ranges do not overlap, and each record's header is still in place.
C7_AppendsDisjoint ==
    /\ \A i, j \in 1..Len(applog) :
          i < j /\ applog[i].fd = applog[j].fd
             => applog[i].off + applog[i].len <= applog[j].off
    /\ \A i \in 1..Len(applog) :
          LET h == read_exact_at(fs_impl, applog[i].fd, HeaderLEN, applog[i].off) IN
          h.ok /\ entry_size(HdrKeySize(h.data), HdrValueSize(h.data)) = applog[i].len

C7_Witness ==
    /\ pc[1] = "size" /\ pc[2] = "size"
    /\ loc[1].ce.fd = loc[2].ce.fd
    /\ loc[2].ce.offset < loc[1].ce.offset

RECURSIVE SumLen(_)
SumLen(log) == IF log = <<>> THEN 0 ELSE Head(log).len + SumLen(Tail(log))

RECURSIVE SumPos(_, _)
SumPos(fs, fds) ==
    IF fds = {} THEN 0
    ELSE LET fd == CHOOSE x \in fds : TRUE IN fs.buffers[fd].pos + SumPos(fs, fds \ {fd})

\* C8: two threads, each having completed N puts of pairwise-distinct keys and
\* nothing else, leave 2N index entries, each readable with the value put, and
\* the data files hold exactly the sum of the record lengths.
C8_TwoWriters ==
    (/\ Idle /\ tput[1] >= 1 /\ tput[1] = tput[2]
     /\ ops = tput[1] + tput[2]
     /\ \A k \in Keys : nput[k] <= 1)
    => /\ Cardinality(DOMAIN keydir) = tput[1] + tput[2]
       /\ \A k \in DOMAIN keydir : model[k] # <<>> /\ Get(k) = Ok(model[k][1])
       /\ SumPos(fs_impl, DOMAIN fs_impl.buffers) = SumLen(applog)

\* C9: a get(k) a thread issues right after its own successful put(k, v)
\* returns v, while the other thread puts other keys only.
C9_ReadOwnWrite ==
    \A t \in Threads :
        (/\ pc[t] = "idle" /\ last[t].op = "get" /\ last[t].own # <<>>
         /\ nput[last[t].key] = 1 /\ model[last[t].key] = last[t].own)
        => last[t].res = Ok(last[t].own[1])

EqualPuts ==
    /\ reopens = 0 /\ applog # <<>>
    /\ \A i \in 1..Len(applog) : ~applog[i].tomb /\ applog[i].len = applog[1].len

CeilDiv(a, b) == (a + b - 1) \div b

\* C10: single-threaded, a put rotates the active file exactly when the size
\* after its append is >= the threshold, so the active size is below the
\* threshold after every put; N puts of s-byte records from a fresh store leave
\* 1 + floor(N / ceil(T / s)) files.
C10_RotateAtThreshold ==
    /\ PutDone(1) =>
          LET a == applog[Len(applog)] IN
          /\ (active_fd # a.fd) <=> (a.off + a.len >= Threshold)
          /\ last[1].rotated <=> (a.off + a.len >= Threshold)
          /\ cursor < Threshold
    /\ Idle /\ EqualPuts =>
          num_files(fs_impl) = 1 + (Len(applog) \div CeilDiv(Threshold, applog[1].len))

C10_Witness ==
    /\ Idle /\ EqualPuts /\ PutDone(1) /\ last[1].rotated
    /\ Len(applog) >= 4 /\ num_files(fs_impl) = 3

\* C6: no interleaving of concurrent put, get and delete calls deadlocks: while
\* some call is in progress some call in progress can take its next step, and
\* no call asks for the keydir lock while it holds the Fs lock (the only
\* nesting is keydir, then Fs).
C6_NoDeadlock ==
    /\ (\E t \in Threads : LockBusy(t)) => (\E t \in Threads : CanStep(t))
    /\ \A t \in Threads :
          LockBusy(t) /\ Holds(t, "fs") => NextEvent(t) # <<"acq", "kd", NextEvent(t)[3]>>

C6_Witness ==
    \E t, u \in Threads :
        /\ t # u /\ LockBusy(t) /\ lk["kd"].w = t
        /\ NextEvent(t) = <<"acq", "fs", "w">>
        /\ Holds(u, "fs") /\ LockBusy(u)

\* C5: every job passed to execute on a pool that is not shut down is
\* eventually run, and no job is run twice.
C5_EveryJobRuns ==
    /\ \A j \in Jobs : [](ran[j] <= 1)
    /\ \A j \in Jobs : (j < next_job /\ ~shutdown) ~> (ran[j] = 1 \/ shutdown)

\* the appended bytes of the first n records of the log
Cum(n) == SumLen(SubSeq(applog, 1, n))

\* only puts so far, and the last one took the cumulative size past the threshold
FirstExceeds ==
    /\ reopens = 0 /\ applog # <<>>
    /\ \A i \in 1..Len(applog) : ~applog[i].tomb
    /\ Cum(Len(applog)) > Threshold /\ Cum(Len(applog) - 1) <= Threshold

\* appends that ended at or past the threshold
Crossings ==
    Cardinality({i \in 1..Len(applog) : applog[i].off + applog[i].len >= Threshold})

\* C11 as stated: once the cumulative size of the inserted records first
\* strictly exceeds the threshold the store has exactly 2 files, and every
\* further crossing adds exactly one file.
C11_TwoFilesPastThreshold ==
    Idle => /\ FirstExceeds => num_files(fs_impl) = 2
            /\ num_files(fs_impl) = 1 + Crossings

\* C11 amended: the store has one file more than the appends that left the
\* active file at or past the threshold; when every record is shorter than the
\* threshold, it has exactly 2 files once the cumulative size first strictly
\* exceeds the threshold.
C11_OneFilePerCrossing ==
    Idle => /\ (FirstExceeds /\ \A i \in 1..Len(applog) : applog[i].len < Threshold)
               => num_files(fs_impl) = 2
            /\ num_files(fs_impl) = 1 + Crossings

C11_Witness ==
    /\ Idle /\ FirstExceeds /\ Len(applog) = 3 /\ Cum(2) = Threshold
    /\ \A i \in 1..Len(applog) : applog[i].len < Threshold
    /\ num_files(fs_impl) = 2 /\ Crossings = 1

\* the files a single thread leaves that appends records of the given lengths
\* in the given order: one rotation whenever the active size reaches the threshold
RECURSIVE SeqFiles(_, _, _)
SeqFiles(lens, size, files) ==
    IF lens = <<>> THEN files
    ELSE LET sz == size + Head(lens) IN
         IF sz >= Threshold THEN SeqFiles(Tail(lens), 0, files + 1)
         ELSE SeqFiles(Tail(lens), sz, files)

LogLens == [i \in 1..Len(applog) |-> applog[i].len]

\* C12: two threads putting concurrently leave, in every interleaving, the
\* number of files that a sequential run of the same puts leaves.
C12_FileCountAsSequential ==
    (/\ Idle /\ tput[1] >= 1 /\ tput[2] >= 1 /\ ops = tput[1] + tput[2])
    => num_files(fs_impl) = SeqFiles(LogLens, 0, 1)

\* C13: at every moment the active file is shorter than the threshold plus the
\* length of the record appended last.
C13_AtMostOneRecordOver ==
    applog # <<>> => cursor < Threshold + applog[Len(applog)].len

\* C14: a put whose append fails returns the error and leaves the index as it
\* was when the put was called.
C14_FailedPutKeepsIndex ==
    [][\A t \in Threads :
         /\ (pc[t] = "idle" /\ pc'[t] = "write") => keydir' = keydir
         /\ (pc[t] = "write" /\ pc'[t] = "idle")
               => last'[t].op = "put" /\ last'[t].res = IoErr /\ keydir' = keydir]_vars

C14_Witness ==
    /\ Idle /\ last[1].op = "put" /\ last[1].res = IoErr
    /\ last[1].key \in DOMAIN keydir /\ model[last[1].key] # <<last[1].val>>
    /\ Get(last[1].key) = Ok(model[last[1].key][1])

\* the key of the remove call that thread t enters in this step
RemoveCalled(t, k) ==
    /\ pc[t] = "idle" /\ ops' = ops + 1
    /\ \/ pc'[t] = "idle" /\ last'[t].op = "remove" /\ last'[t].key = k
       \/ pc'[t] # "idle" /\ loc'[t].op = "remove" /\ loc'[t].key = k

\* C15: a delete of a key that is absent from the index returns success at
\* once and appends nothing: cursor, files, active fd and index stay as they are.
C15_DeleteAbsentNoIO ==
    [][\A t \in Threads, k \in Keys :
         RemoveCalled(t, k) /\ k \notin DOMAIN keydir
            => /\ pc'[t] = "idle" /\ last'[t].res = Ok(<<>>)
               /\ <<fs_impl, cursor, active_fd, keydir, applog>>'
                    = <<fs_impl, cursor, active_fd, keydir, applog>>]_vars

C15_Witness ==
    /\ Idle /\ last[1].op = "remove" /\ last[1].res = Ok(<<>>)
    /\ nput[last[1].key] = 0 /\ Len(applog) = 1 /\ keydir # <<>>

\* C16: while the tombstone of delete(k) is pending, k is out of the index and
\* no get(k) is in progress; a delete returns at once only for an absent key,
\* a key leaves the index only with its tombstone append pending, and the call
\* returns Ok exactly when that append succeeded and the append's error
\* otherwise.
C16_RemoveThenTombstone ==
    /\ [](\A t \in Threads :
            pc[t] = "tomb"
               => /\ loc[t].key \notin DOMAIN keydir
                  /\ \A u \in Threads : pc[u] \in {"hdr", "data"} => loc[u].key # loc[t].key)
    /\ [][\A t \in Threads, k \in Keys :
           /\ (k \in DOMAIN keydir /\ k \notin DOMAIN keydir')
                 => \E u \in Threads : pc[u] = "idle" /\ pc'[u] = "tomb" /\ loc'[u].key = k
           /\ (pc[t] = "idle" /\ pc'[t] = "idle" /\ last'[t] # last[t]
                 /\ last'[t].op = "remove" /\ last'[t].key = k)
                 => k \notin DOMAIN keydir /\ last'[t].res = Ok(<<>>)
           /\ (pc[t] = "tomb" /\ pc'[t] = "idle")
                 => \/ /\ last'[t].res = Ok(<<>>) /\ Len(applog') = Len(applog) + 1
                       /\ applog'[Len(applog')].tomb
                    \/ last'[t].res = IoErr /\ applog' = applog]_vars

C16_Witness ==
    \E t, u \in Threads :
        /\ t # u /\ pc[t] = "tomb" /\ pc[u] = "idle"
        /\ last[u].op = "get" /\ last[u].key = loc[t].key /\ last[u].res.tag = "Ok"

\* C17: a run of the compaction loop leaves the result of get(k) as it was for
\* every key of the index, and NotFound for every key outside it.
C17_CompactionKeepsContent ==
    [][compacted' # compacted =>
         \A k \in Keys :
             /\ get(fs_impl', active_fd', keydir', k) = Get(k)
             /\ k \notin DOMAIN keydir => get(fs_impl', active_fd', keydir', k) = NotFound]_vars

C17_Witness ==
    /\ Idle /\ Len(compacted) = CompactionJobs /\ compacted[CompactionJobs] = Len(applog)
    /\ Len(applog) >= 3
    /\ \E k \in DOMAIN keydir : model[k] # <<>>
    /\ \E k \in Keys : k \notin DOMAIN keydir /\ nput[k] >= 1

\* C18: opening a directory that holds records twice in a row, with no call in
\* between, gives the second store the index of the first: the same keys with
\* the same locators.
C18_ReopenTwiceSameIndex ==
    [][(reopens' = reopens + 1 /\ last[1].op = "open" /\ applog # <<>>)
          => keydir' = keydir]_vars

C18_Witness ==
    /\ reopens >= 2 /\ last[1].op = "open" /\ last[1].size = 2
    /\ applog # <<>> /\ model # [k \in Keys |-> <<>>]

\* no owner holds a handle any more
AllDropped == \A h \in Handles : hpc[h] # "held"

\* worker w was never spawned or is out of Inner::run
LeftRunLoop(w) == wpc[w] \in {"none", "exit", "panicked", "done"}

\* C19: once the last handle of the pool is dropped, the shutdown flag gets set
\* and every spawned worker leaves its run loop, however many workers were
\* spawned and however the drops interleave.
C19_LastDropShutsDown ==
    AllDropped ~> (shutdown /\ \A w \in Workers : LeftRunLoop(w))

\* C20: shutdown wakes the idle workers, returns only after every worker has
\* left its run loop (a running job is waited for), and the call always
\* terminates, also with jobs queued at the moment of shutdown.
C20_ShutdownTerminates ==
    /\ [](\A i \in HandleIds :
            hpc[i] = "join" => \A w \in Workers : LeftRunLoop(w) /\ wjob[w] = 0)
    /\ \A w \in Workers : (shutdown /\ wpc[w] = "wait") ~> (wpc[w] # "wait")
    /\ \A i \in HandleIds : (hpc[i] = "recv") ~> (hpc[i] = "gone")

\* the fields behind the mutex together with the taken join handles
SharedState == <<queue, num_threads, thread_idx, worker_threads, waiting_threads,
                 shutdown, shutdown_tx, taken>>

\* handle i is in a call of shutdown that comes after the one that took effect
LaterShutdown(i) == hpc[i] \in {"load", "lock"} /\ ~shutdown_tx

\* a step of a later shutdown call leaves the pool state alone and never
\* reaches the wait for the workers
LaterShutdownNoEffect ==
    [][\A i \in HandleIds :
            (LaterShutdown(i) /\ hpc'[i] # hpc[i])
               => /\ hpc'[i] \in {"lock", "gone"}
                  /\ SharedState' = SharedState]_vars

\* C21: once one shutdown has taken effect, a further shutdown call or handle
\* drop changes nothing of the pool state, does not wait for or join the
\* workers again, and returns.
C21_ShutdownIdempotent ==
    /\ LaterShutdownNoEffect
    /\ \A i \in HandleIds : LaterShutdown(i) ~> (hpc[i] = "gone")

\* the call made by this step, with the compactor it is made on in state st
Calls(name, st) == cin'.call = name /\ compactor.state = st /\ cin' # cin

\* C22: in Wait(since), a timeout at t >= since + 1 hour takes the compactor
\* back to Compact and queues CheckFile.
C22_DormancyElapses ==
    [][(Calls("handle_timeout", "Wait") /\ cin'.inp.now >= compactor.since + Dormancy)
          => /\ compactor'.state = "Compact"
             /\ compactor'.operations =
                   Append(compactor.operations, Op("CheckFile", <<>>))]_vars

\* C23: End(now) while in Compact leads to Wait(now); the deadline in Wait is
\* now + 1 hour, and there is no deadline in Compact.
C23_EndThenDeadline ==
    /\ [](cin.call = "poll_timeout"
            => cout = IF compactor.state = "Wait"
                      THEN Ret(TRUE, NoOp, compactor.since + Dormancy)
                      ELSE NoRet)
    /\ [][(Calls("handle_input", "Compact") /\ cin'.inp.kind = "End")
            => /\ compactor'.state = "Wait" /\ compactor'.since = cin'.inp.now
               /\ compactor'.operations = compactor.operations]_vars

C23_Witness ==
    /\ cin.call = "poll_timeout" /\ compactor.state = "Wait"
    /\ compactor.since = 3600 /\ cout.some /\ cout.at = 7200

\* C24: every Entry input while compacting queues exactly one operation:
\* Ignore for a tombstone, else CheckKeydir with the key of the record.
C24_EntryEmitsOne ==
    [][(Calls("handle_input", "Compact") /\ cin'.inp.kind = "Entry")
          => compactor'.operations =
                Append(compactor.operations,
                       IF cin'.inp.tomb THEN Op("Ignore", <<>>)
                       ELSE Op("CheckKeydir", cin'.inp.key))]_vars

\* C25: a match reply queues AddImmutable directly followed by AddHint, a
\* no-match reply queues one Ignore and nothing else; operations are handed
\* out in the order they were queued.
C25_MatchCopiesThenHints ==
    /\ [][(Calls("handle_input", "Compact") /\ cin'.inp.kind = "MatchKeydir")
            => compactor'.operations =
                  compactor.operations
                     \o <<Op("AddImmutable", <<>>), Op("AddHint", <<>>)>>]_vars
    /\ [][(Calls("handle_input", "Compact") /\ cin'.inp.kind = "NotMatchkeydir")
            => compactor'.operations = Append(compactor.operations, Op("Ignore", <<>>))]_vars
    /\ [][(cin'.call = "poll_transmit" /\ cin' # cin /\ compactor.operations # <<>>)
            => /\ cout'.some /\ cout'.op = Head(compactor.operations)
               /\ compactor'.operations = Tail(compactor.operations)]_vars

C25_Witness ==
    /\ cin.call = "poll_transmit" /\ cout.some /\ cout.op = Op("AddImmutable", <<>>)
    /\ compactor.operations # <<>> /\ Head(compactor.operations) = Op("AddHint", <<>>)

\* the sizes the constructors must refuse
BadKeyLen(n) == ToInt(n) = 0 \/ n.hi > 0 \/ n.lo > U16MAX - 1
BadValLen(n) == n.hi > U16MAX \/ (n.hi = U16MAX /\ n.lo > U16MAX - 1)

\* C26: a key of length 0 or above 65534, or a value longer than 2^32 - 2,
\* makes the constructor fail with an error, and a header never holds a length
\* reduced modulo 2^16 or 2^32.
C26_SizesChecked ==
    calc.fn \in {"new_encoded", "new_empty"} /\ calc.done
       => /\ (BadKeyLen(calc.key_len) \/ BadValLen(calc.val_len))
                => calc.out.tag = "Err"
          /\ calc.out.tag = "Ok"
                => /\ Len64(0, calc.out.key_size) = calc.key_len
                   /\ calc.out.value_size = calc.val_len

\* the places in the append log of the records of key k
RecordsOf(k) == {i \in 1..Len(applog) : applog[i].key = k}

\* the last of a non-empty set of places
LastOf(S) == CHOOSE i \in S : \A j \in S : j <= i

\* C27: with no put in progress, the locator of every key in the index points
\* at the live record of that key that is last in the append log, also when
\* several threads put the same key.
C27_IndexFollowsLog ==
    Idle =>
      \A k \in DOMAIN keydir :
         LET S == {i \in RecordsOf(k) : ~applog[i].tomb} IN
         S # {} => /\ keydir[k].fd = applog[LastOf(S)].fd
                   /\ keydir[k].offset = applog[LastOf(S)].off

\* the places in the log of the record that the locator of k points to
LocatorOf(k) ==
    {j \in RecordsOf(k) : applog[j].fd = keydir[k].fd /\ applog[j].off = keydir[k].offset}

\* C28: with no call in progress, no key of the index has a tombstone later in
\* the log than the record its locator points to, however put(k) and delete(k)
\* of several threads interleave.
C28_NoNewerTombstone ==
    Idle =>
      \A k \in DOMAIN keydir :
         \A j \in LocatorOf(k) :
            \A i \in RecordsOf(k) : applog[i].tomb => i < j

\* the records appended to the active file since it became active
InActive == {i \in 1..Len(applog) : applog[i].fd = active_fd}

RECURSIVE SumOver(_)
SumOver(S) ==
    IF S = {} THEN 0 ELSE LET i == CHOOSE j \in S : TRUE IN applog[i].len + SumOver(S \ {i})

\* C29: the write cursor is the sum of the lengths of the records appended to
\* the active file since it became active: a successful append advances it by
\* the record length, also after a short write, and a failed one not at all.
C29_CursorIsSumOfAppends ==
    reopens = 0 => cursor = SumOver(InActive)

\* the bytes of active.db in a ConcreteSystem directory
ActiveBytes(fs) == fs.inodes[fs.dir[0]]

\* every file keeps the bytes it has, and may grow
FilesOnlyGrow ==
    \A n \in DOMAIN fs_impl.inodes :
        /\ n \in DOMAIN fs_impl'.inodes
        /\ Len(fs_impl'.inodes[n]) >= Len(fs_impl.inodes[n])
        /\ SubSeq(fs_impl'.inodes[n], 1, Len(fs_impl.inodes[n])) = fs_impl.inodes[n]

\* C30: after an open of a store whose active file holds records, the write
\* cursor is the end offset of the last of these records, and the puts that
\* follow never overwrite a record.
C30_CursorAfterOpen ==
    /\ [][(reopens' = reopens + 1 /\ ActiveBytes(fs_impl) # <<>>)
            => cursor' = Len(ActiveBytes(fs_impl))]_vars
    /\ [][fs_impl.kind = "concrete" => FilesOnlyGrow]_vars

\* the scan has run to its end without an error
ScanDone == calc.fn = "scan" /\ calc.status = "done"

\* C31: the scan takes a key out of the index when it meets a tombstone for
\* it: a key whose last record in the scanned file is a tombstone is absent
\* from the rebuilt index.
C31_ScanDropsTombstoned ==
    ScanDone =>
      \A k \in Keys :
         LET S == RecordsOf(k) \cap InActive IN
         (S # {} /\ applog[LastOf(S)].tomb) => k \notin DOMAIN calc.map

\* this step is a call of HeaderIter::next
ScanSteps == calc.fn = "scan" /\ calc.status = "run" /\ calc' # calc

\* C32: with fewer than 15 bytes left at the scan offset the scan stops
\* silently: the open succeeds with the index of the complete records before
\* it, and the file is as it was.
C32_PartialTailStopsScan ==
    [][(ScanSteps /\ calc.current < cursor /\ cursor - calc.current < HeaderLEN)
          => /\ calc'.status = "done" /\ calc'.map = calc.map
             /\ fs_impl' = fs_impl]_vars

\* C40: the scan of a file of finite size comes to an end, whatever the
\* headers hold: a step that goes on moves the offset by at least 15 bytes,
\* and the scan stops when the offset has reached the file size or a read fails.
C40_ScanTerminates ==
    /\ [][ScanSteps =>
            /\ calc'.status = "run" => calc'.current >= calc.current + HeaderLEN
            /\ calc'.status = "done" <=> ~(calc.current < cursor)
            /\ calc'.status # "run" => calc'.current = calc.current]_vars
    /\ (calc.fn = "scan" /\ calc.status = "run")
          ~> (calc.fn = "scan" /\ calc.status # "run")

C40_Witness ==
    /\ ScanDone /\ calc.current = cursor
    /\ Cardinality(InActive) >= 2 /\ Cardinality(DOMAIN calc.map) >= 2

\* the handles a file system has files open under, and the bytes of one
OpenFds(fs) == IF fs.kind = "test" THEN DOMAIN fs.buffers ELSE DOMAIN fs.map
FileBytes(fs, fd) ==
    IF fs.kind = "test" THEN fs.buffers[fd].buf ELSE fs.inodes[fs.map[fd]]

\* this step is a rotation
Rotates == active_fd' # active_fd /\ reopens' = reopens

\* C33: a rotation leaves the previous active file as it is and never written
\* again, opens an empty file under a handle not used before and sets the
\* cursor to 0, in one step with respect to appends; in every state the Fs
\* layer's active handle is the file system's and names one open file, and a
\* returned locator names the file that holds the record at its offset.
C33_RotationInstallsFreshActive ==
    /\ [](active_fd = fs_impl.active /\ active_fd \in OpenFds(fs_impl))
    /\ [][Rotates =>
            /\ active_fd' \notin OpenFds(fs_impl)
            /\ FileBytes(fs_impl', active_fd') = <<>>
            /\ cursor' = 0]_vars
    /\ [][reopens' = reopens =>
            \A fd \in OpenFds(fs_impl) \ {active_fd} :
            /\ fd \in OpenFds(fs_impl')
            /\ FileBytes(fs_impl', fd) = FileBytes(fs_impl, fd)]_vars
    /\ [][\A t \in Threads :
            (pc[t] = "write" /\ pc'[t] = "size") =>
               LET ce == loc'[t].ce
                   rec == EntrySerialize(new_encoded(loc[t].key, loc[t].val, loc[t].ts))
               IN /\ ce.fd = active_fd /\ ce.offset = cursor
                  /\ SubSeq(FileBytes(fs_impl', ce.fd), ce.offset + 1,
                            ce.offset + Len(rec)) = rec]_vars

C33_Witness ==
    /\ \E t \in Threads : last[t].op = "put" /\ last[t].rotated
    /\ \E i \in 1..Len(applog) : applog[i].fd = active_fd /\ applog[i].off = 0
    /\ \E i \in 1..Len(applog) : applog[i].fd # active_fd

\* the immutable data files of a store (by handle in the test file system,
\* by the n of immutable-n.db in a directory), and the bytes of one
ImmutableFiles(fs) ==
    IF fs.kind = "test" THEN DOMAIN fs.buffers \ {fs.active} ELSE DOMAIN fs.dir \ {0}
ImmutableBytes(fs, n) ==
    IF fs.kind = "test" THEN fs.buffers[n].buf ELSE fs.inodes[fs.dir[n]]

\* C34: no call, rotation or reopening of the directory deletes, overwrites
\* or replaces an immutable data file: each one is still there after the step,
\* with the bytes it had.
C34_ImmutableFilesKept ==
    [][\A n \in ImmutableFiles(fs_impl) :
          /\ n \in ImmutableFiles(fs_impl')
          /\ ImmutableBytes(fs_impl', n) = ImmutableBytes(fs_impl, n)]_vars

\* C35: for key_size <= 65534 and value_size <= 2^32 - 2 the length of a
\* record is 15 + key_size + value_size, and data_size, entry_size, Entry::len
\* and the length of the serialized record all give it, none saturated or
\* wrapped.
C35_SizesAgree ==
    (calc.fn = "sizes" /\ calc.hdone /\ calc.edone)
       => LET data == Add64(Len64(0, calc.key_size), calc.value_size)
              all == Add64(Len64(0, HeaderLEN), data)
          IN /\ calc.data_size = data
             /\ calc.entry_size = all
             /\ calc.len = all
             /\ calc.serialized = all

\* the value bytes of the record that starts at offset off of the file fd names
ValueAt(fs, fd, off) ==
    LET b == FileBytes(fs, fd)
        ks == HdrKeySize(SubSeq(b, off + 1, off + HeaderLEN))
        vs == HdrValueSize(SubSeq(b, off + 1, off + HeaderLEN))
    IN SubSeq(b, off + HeaderLEN + ks + 1, off + HeaderLEN + ks + vs)

\* C36: a get that succeeds returns the value bytes of the record at its
\* locator's offset in the file the locator's handle names, and so never the
\* value of another key or of a superseded put.
C36_GetReadsLocatorFile ==
    [][\A t \in Threads :
          (pc[t] = "data" /\ pc'[t] = "idle" /\ last'[t].res.tag = "Ok")
             => last'[t].res.val = ValueAt(fs_impl, loc[t].ce.fd, loc[t].ce.offset)]_vars

\* C37: a rotation is only applied to an active file that has reached the
\* threshold: of two concurrent puts that both saw the threshold reached only
\* one rotates, and no empty or shorter file is made immutable.
C37_RotatesOnlyFullFile ==
    [][Rotates => cursor >= Threshold /\ Len(FileBytes(fs_impl, active_fd)) >= Threshold]_vars

\* the workers spawned so far, and those of them whose thread is out of the
\* loop of Inner::run
Spawned == {w \in Workers : wpc[w] # "none"}
OutOfRunLoop == {w \in Spawned : wpc[w] \in {"exit", "panicked", "done"}}

\* C38: num_threads never exceeds max_threads, and it is the number of
\* workers spawned minus the number of workers that have left their run loop.
C38_PoolFixedSize ==
    /\ num_threads <= max_threads
    /\ num_threads = Cardinality(Spawned) - Cardinality(OutOfRunLoop)

\* C39: in the Wait state handle_input of any input leaves the state, the
\* deadline and the queue of pending operations of the compactor as they were.
C39_WaitIgnoresInput ==
    [][(compactor.state = "Wait" /\ cin'.call = "handle_input")
          => /\ compactor'.state = "Wait" /\ compactor'.since = compactor.since
             /\ compactor'.operations = compactor.operations
             /\ poll_timeout(compactor') = poll_timeout(compactor)]_vars

C39_Witness ==
    /\ compactor.state = "Wait" /\ cin.call = "handle_input"
    /\ cin.inp.kind = "MatchKeydir"
    /\ compactor.operations # <<>>

====
